---- MODULE Spec2Model ----
(***************************************************************************)
(* Model of the ink! contract RandomSample (src/lib.rs).                   *)
(*                                                                         *)
(* The contract stores a u64 `salt` and a u8 `random`.  get_pseudo_random  *)
(* hashes block_timestamp || salt (both big-endian) with Keccak-256, adds  *)
(* one to salt and returns output[0] % (max_value + 1); flip stores        *)
(* get_pseudo_random(99) in `random`; get reads `random`.                  *)
(*                                                                         *)
(* A u64 is kept as four 16-bit limbs, least significant first, so that    *)
(* the whole 64-bit range is representable and to_be_bytes is a real       *)
(* conversion.  Keccak-256 is a library primitive: it is modelled as an    *)
(* unknown but fixed function, discovered lazily (`keccak` remembers the   *)
(* first digest byte chosen for every message hashed so far).              *)
(***************************************************************************)
EXTENDS Integers, Sequences, FiniteSets, TLC

VARIABLES
    self,             \* the storage struct: [salt : u64, random : u8]
    overflow_checks,  \* build profile: are arithmetic overflows checked?
    keccak,           \* message -> output[0], for the messages hashed so far
    hashed,           \* the input vectors this instance has hashed, in order
    calls,            \* get_pseudo_random executions on this instance
    hashes,           \* hash computations so far, over all instances
    gen,              \* the last get_pseudo_random / flip call on this instance
    last              \* the last call of any kind on this instance

vars == <<self, overflow_checks, keccak, hashed, calls, hashes, gen, last>>

----------------------------------------------------------------------------
(* Bounds of the exploration *)

MaxHashes == 3

(* Program constants *)

LimbBase == 65536

ByteBase == 256

FlipMax == 99

(* max_value arguments tried; 255 is the largest u8 *)
MaxValues == {0, 1, FlipMax, ByteBase - 2, ByteBase - 1}

(* first digest bytes the hash may produce *)
DigestBytes == {7, 100, ByteBase - 1}

----------------------------------------------------------------------------
(* u64 as four 16-bit limbs, least significant limb first *)

U64(n) == <<n % LimbBase, (n \div LimbBase) % LimbBase, 0, 0>>

U64Max == <<LimbBase - 1, LimbBase - 1, LimbBase - 1, LimbBase - 1>>

(* block timestamps the environment may report *)
Timestamps == {U64(1000), U64(66536)}

(* x + 1 without regard to overflow: wraps to zero at the maximum *)
WrappingInc(x) ==
    IF x[1] < LimbBase - 1 THEN <<x[1] + 1, x[2], x[3], x[4]>>
    ELSE IF x[2] < LimbBase - 1 THEN <<0, x[2] + 1, x[3], x[4]>>
    ELSE IF x[3] < LimbBase - 1 THEN <<0, 0, x[3] + 1, x[4]>>
    ELSE IF x[4] < LimbBase - 1 THEN <<0, 0, 0, x[4] + 1>>
    ELSE <<0, 0, 0, 0>>

(* `x += 1` on a u64: panics on overflow when overflow checks are compiled
   in, wraps otherwise *)
AddAssignU64(x, checks) ==
    IF x = U64Max /\ checks
    THEN [panic |-> TRUE, val |-> x]
    ELSE [panic |-> FALSE, val |-> WrappingInc(x)]

(* faulty variant: the sum is one too large *)
AddU8_off_by_one(a, b, checks) ==
    IF a + b + 1 >= ByteBase /\ checks
    THEN [panic |-> TRUE, val |-> 0]
    ELSE [panic |-> FALSE, val |-> (a + b + 1) % ByteBase]

(* `a + b` on u8 *)
AddU8(a, b, checks) ==
    IF a + b >= ByteBase /\ checks
    THEN [panic |-> TRUE, val |-> 0]
    ELSE [panic |-> FALSE, val |-> (a + b) % ByteBase]

(* faulty variant: the dividend is returned as it is, not reduced *)
RemU8_not_reducing(a, b) ==
    IF b = 0
    THEN [panic |-> TRUE, val |-> 0]
    ELSE [panic |-> FALSE, val |-> a]

(* `a % b` on u8: a zero divisor panics in every build *)
RemU8(a, b) ==
    IF b = 0
    THEN [panic |-> TRUE, val |-> 0]
    ELSE [panic |-> FALSE, val |-> a % b]

(* u64::to_be_bytes: eight bytes, most significant first *)
to_be_bytes(x) ==
    << x[4] \div ByteBase, x[4] % ByteBase,
       x[3] \div ByteBase, x[3] % ByteBase,
       x[2] \div ByteBase, x[2] % ByteBase,
       x[1] \div ByteBase, x[1] % ByteBase >>

(* faulty variant: the salt bytes are left out and the seed is hashed twice *)
input_without_salt(seed, salt) == to_be_bytes(seed) \o to_be_bytes(seed)

(* the vector `input` handed to the hash: seed bytes, then salt bytes *)
input(seed, salt) == to_be_bytes(seed) \o to_be_bytes(salt)

----------------------------------------------------------------------------
(* The contract's constructors and messages, as functions of the storage *)

new == [salt |-> U64(0), random |-> 0]

(* faulty variant: default builds its own struct, with a non-zero value *)
default_not_delegating == [salt |-> U64(0), random |-> 1]

default == new

(* faulty variant: the salt is advanced only after the remainder was taken,
   so a panicking call leaves it as it was *)
get_pseudo_random_inc_last(s, seed, max_value, output0, checks) ==
    LET inc == AddAssignU64(s.salt, checks)
        modulus == AddU8(max_value, 1, checks)
        number == RemU8(output0, modulus.val)
    IN  IF modulus.panic \/ number.panic \/ inc.panic
        THEN [self |-> s, panic |-> TRUE, number |-> 0]
        ELSE [self |-> [s EXCEPT !.salt = inc.val], panic |-> FALSE,
              number |-> number.val]

(* faulty variant: the stored value is mixed into the digest byte *)
get_pseudo_random_mixing_random(s, seed, max_value, output0, checks) ==
    LET inc == AddAssignU64(s.salt, checks)
        s1 == [s EXCEPT !.salt = inc.val]
        modulus == AddU8(max_value, 1, checks)
        number == RemU8((output0 + s.random) % ByteBase, modulus.val)
    IN  IF inc.panic
        THEN [self |-> s, panic |-> TRUE, number |-> 0]
        ELSE IF modulus.panic \/ number.panic
        THEN [self |-> s1, panic |-> TRUE, number |-> 0]
        ELSE [self |-> s1, panic |-> FALSE, number |-> number.val]

(* faulty variant: the number is also stored in `random` before it is
   returned *)
get_pseudo_random_storing(s, seed, max_value, output0, checks) ==
    LET inc == AddAssignU64(s.salt, checks)
        s1 == [s EXCEPT !.salt = inc.val]
        modulus == AddU8(max_value, 1, checks)
        number == RemU8(output0, modulus.val)
    IN  IF inc.panic
        THEN [self |-> s, panic |-> TRUE, number |-> 0]
        ELSE IF modulus.panic \/ number.panic
        THEN [self |-> s1, panic |-> TRUE, number |-> 0]
        ELSE [self |-> [s1 EXCEPT !.random = number.val], panic |-> FALSE,
              number |-> number.val]

(* get_pseudo_random(&mut self, max_value), given the block timestamp
   `seed` and the first byte `output0` of the digest of input(seed, salt).
   The result is the storage left behind, whether the call panicked, and
   the number returned when it did not. *)
get_pseudo_random(s, seed, max_value, output0, checks) ==
    LET inc == AddAssignU64(s.salt, checks)
        s1 == [s EXCEPT !.salt = inc.val]
        modulus == AddU8(max_value, 1, checks)
        number == RemU8(output0, modulus.val)
    IN  IF inc.panic
        THEN [self |-> s, panic |-> TRUE, number |-> 0]
        ELSE IF modulus.panic \/ number.panic
        THEN [self |-> s1, panic |-> TRUE, number |-> 0]
        ELSE [self |-> s1, panic |-> FALSE, number |-> number.val]

(* faulty variant: the number is generated but not stored *)
flip_discarding(s, seed, output0, checks) ==
    get_pseudo_random(s, seed, FlipMax, output0, checks)

(* faulty variant: the bound is 100 instead of 99 *)
flip_to_100(s, seed, output0, checks) ==
    LET r == get_pseudo_random(s, seed, FlipMax + 1, output0, checks)
    IN  IF r.panic
        THEN r
        ELSE [r EXCEPT !.self.random = r.number]

(* flip(&mut self): self.random = self.get_pseudo_random(99) *)
flip(s, seed, output0, checks) ==
    LET r == get_pseudo_random(s, seed, FlipMax, output0, checks)
    IN  IF r.panic
        THEN r
        ELSE [r EXCEPT !.self.random = r.number]

(* faulty variant: reading the value resets it *)
get_taking(s) == [self |-> [s EXCEPT !.random = 0], ret |-> s.random]

(* get(&self) -> u8 *)
get(s) == [self |-> s, ret |-> s.random]

----------------------------------------------------------------------------
(* The state machine: calls made on the instance, one at a time *)

NoGen ==
    [op |-> "none", max_value |-> 0, seed |-> U64(0), output0 |-> 0,
     pre |-> new, panic |-> FALSE, number |-> 0]

Call(op, max_value, panic, ret) ==
    [op |-> op, max_value |-> max_value, panic |-> panic, ret |-> ret]

Construct(s, op) ==
    /\ self' = s
    /\ hashed' = <<>>
    /\ calls' = 0
    /\ gen' = NoGen
    /\ last' = Call(op, 0, FALSE, 0)

Init ==
    /\ overflow_checks \in BOOLEAN
    /\ keccak = <<>>
    /\ hashes = 0
    /\ \/ /\ self = new
          /\ last = Call("new", 0, FALSE, 0)
       \/ /\ self = default
          /\ last = Call("default", 0, FALSE, 0)
    /\ hashed = <<>>
    /\ calls = 0
    /\ gen = NoGen

CallNew ==
    /\ Construct(new, "new")
    /\ UNCHANGED <<overflow_checks, keccak, hashes>>

CallDefault ==
    /\ Construct(default, "default")
    /\ UNCHANGED <<overflow_checks, keccak, hashes>>

(* hash_bytes::<Keccak256>(&input, &mut output): output0 is the first byte
   of the digest, the same byte whenever the same message was hashed before *)
Hash(msg, output0) ==
    /\ output0 \in DigestBytes
    /\ msg \in DOMAIN keccak => output0 = keccak[msg]
    /\ keccak' = IF msg \in DOMAIN keccak THEN keccak ELSE (msg :> output0) @@ keccak

CallGetPseudoRandom ==
    /\ hashes < MaxHashes
    /\ hashes' = hashes + 1
    /\ \E seed \in Timestamps, max_value \in MaxValues, output0 \in DigestBytes :
         LET r == get_pseudo_random(self, seed, max_value, output0, overflow_checks)
         IN  /\ Hash(input(seed, self.salt), output0)
             /\ hashed' = Append(hashed, input(seed, self.salt))
             /\ self' = r.self
             /\ calls' = calls + 1
             /\ gen' = [op |-> "get_pseudo_random", max_value |-> max_value,
                        seed |-> seed, output0 |-> output0, pre |-> self,
                        panic |-> r.panic, number |-> r.number]
             /\ last' = Call("get_pseudo_random", max_value, r.panic, r.number)
    /\ UNCHANGED overflow_checks

CallFlip ==
    /\ hashes < MaxHashes
    /\ hashes' = hashes + 1
    /\ \E seed \in Timestamps, output0 \in DigestBytes :
         LET r == flip(self, seed, output0, overflow_checks)
         IN  /\ Hash(input(seed, self.salt), output0)
             /\ hashed' = Append(hashed, input(seed, self.salt))
             /\ self' = r.self
             /\ calls' = calls + 1
             /\ gen' = [op |-> "flip", max_value |-> FlipMax,
                        seed |-> seed, output0 |-> output0, pre |-> self,
                        panic |-> r.panic, number |-> r.number]
             /\ last' = Call("flip", FlipMax, r.panic, 0)
    /\ UNCHANGED overflow_checks

CallGet ==
    /\ LET r == get(self)
       IN  /\ self' = r.self
           /\ last' = Call("get", 0, FALSE, r.ret)
    /\ UNCHANGED <<overflow_checks, keccak, hashed, calls, hashes, gen>>

Next ==
    \/ CallNew
    \/ CallDefault
    \/ CallGetPseudoRandom
    \/ CallFlip
    \/ CallGet

Spec == Init /\ [][Next]_vars

----------------------------------------------------------------------------
(* A long-lived instance: the run is picked up when salt, after 2^64 - 2
   generating calls, is one below the u64 maximum.  `calls` and `hashed`
   then count from the point where the run is picked up. *)

U64NearMax == <<LimbBase - 2, LimbBase - 1, LimbBase - 1, LimbBase - 1>>

InitNearMax ==
    /\ overflow_checks \in BOOLEAN
    /\ keccak = <<>>
    /\ hashes = 0
    /\ \E rnd \in {0, FlipMax} :
          /\ self = [salt |-> U64NearMax, random |-> rnd]
          /\ last = Call("get", 0, FALSE, rnd)
    /\ hashed = <<>>
    /\ calls = 0
    /\ gen = NoGen

SpecNearMax == InitNearMax /\ [][Next]_vars

----------------------------------------------------------------------------
TypeOK ==
    /\ self.random \in 0..(ByteBase - 1)
    /\ \A i \in 1..4 : self.salt[i] \in 0..(LimbBase - 1)
    /\ calls \in 0..hashes
    /\ hashes \in 0..MaxHashes

----------------------------------------------------------------------------
(* Helpers for the properties *)

IsGenerate == gen.op = "get_pseudo_random"

IsFlip == gen.op = "flip"

Distinct(seq) ==
    \A i, j \in 1..Len(seq) : i # j => seq[i] # seq[j]

SeedPart(msg) == SubSeq(msg, 1, 8)

SaltPart(msg) == SubSeq(msg, 9, 16)

----------------------------------------------------------------------------
(* C1 -- Boundedness: for every max_value in 0..255 the last
   get_pseudo_random(max_value) call returned a value v with
   0 <= v <= max_value.  Fails for max_value = 255, where the call panics
   and returns nothing (see C3). *)
C1_Boundedness ==
    IsGenerate => ~gen.panic /\ gen.number \in 0..gen.max_value

(* What does hold: a value that is returned lies in 0..max_value. *)
ReturnedValueBounded ==
    (gen.op # "none" /\ ~gen.panic) => gen.number \in 0..gen.max_value

(* C2, as claimed -- after get_pseudo_random(b) returned v, get() returns v
   until the next get_pseudo_random / flip call. *)
C2_GenerateStoresLastValue ==
    (IsGenerate /\ ~gen.panic) => get(self).ret = gen.number

(* C2, amended -- after flip() generated v, get() returns v until the next
   flip; get_pseudo_random(b) returns its value without storing it, so
   after it get() still returns what it returned before the call. *)
C2_FlipStoresLastValue ==
    /\ (IsFlip /\ ~gen.panic) => get(self).ret = gen.number
    /\ IsGenerate => get(self).ret = gen.pre.random

C2_Witness ==
    /\ IsGenerate
    /\ ~gen.panic
    /\ gen.number # gen.pre.random
    /\ gen.pre.random # 0
    /\ last.op = "get"

(* C3 -- Totality: get_pseudo_random(max_value) completes and returns a
   value for every max_value in 0..255.  Fails for max_value = 255:
   max_value + 1 is computed in u8. *)
C3_Total ==
    IsGenerate => ~gen.panic

(* What does hold: the call panics exactly when max_value = 255, in both
   build profiles. *)
PanicsExactlyAtMaxU8 ==
    IsGenerate => (gen.panic <=> gen.max_value = ByteBase - 1)

(* C4 -- Counter monotonicity: after n get_pseudo_random / flip calls on an
   instance, interleaved with any get calls, salt = 0 + n. *)
C4_CounterCountsCalls ==
    self.salt = U64(calls)

C4_Witness ==
    /\ calls >= 2
    /\ gen.panic
    /\ last.op = "get"
    /\ self.random # 0

(* C5 -- No message collision: no two calls on one instance hash the same
   16-byte message; two messages always differ in their salt bytes. *)
C5_NoMessageCollision ==
    /\ Distinct(hashed)
    /\ \A i, j \in 1..Len(hashed) :
         i # j => SaltPart(hashed[i]) # SaltPart(hashed[j])
    /\ \A i \in 1..Len(hashed) : Len(hashed[i]) = 16

C5_Witness ==
    /\ Len(hashed) >= 3
    /\ \A i \in 1..Len(hashed) : SeedPart(hashed[i]) = SeedPart(hashed[1])

(* C6 -- Construction: an instance fresh from new() or default() has
   salt = 0 and get() = 0, and has hashed nothing. *)
C6_FreshInstanceIsZero ==
    last.op \in {"new", "default"} =>
        /\ self.salt = U64(0)
        /\ get(self).ret = 0
        /\ hashed = <<>>
        /\ calls = 0

C6_Witness ==
    /\ last.op = "default"
    /\ hashes >= 2
    /\ \E m \in DOMAIN keccak : SaltPart(m) = to_be_bytes(U64(1))

(* C7, as claimed -- the storage after flip() equals the storage after
   get_pseudo_random(99) from the same storage, timestamp and digest. *)
C7_FlipSameStateAsGenerate ==
    IsFlip =>
        self = get_pseudo_random(gen.pre, gen.seed, FlipMax, gen.output0,
                                 overflow_checks).self

(* C7, amended -- flip() is get_pseudo_random(99) followed by storing the
   returned number in `random`: salt ends as after get_pseudo_random(99),
   one above its value before the call, and get() returns the number that
   get_pseudo_random(99) returns (get_pseudo_random itself leaves `random`
   as it was); flip returns nothing. *)
C7_FlipStoresGenerate99 ==
    IsFlip =>
        LET r == get_pseudo_random(gen.pre, gen.seed, FlipMax, gen.output0,
                                   overflow_checks)
        IN  /\ ~r.panic
            /\ ~gen.panic
            /\ self.salt = r.self.salt
            /\ self.salt = WrappingInc(gen.pre.salt)
            /\ self.salt = U64(calls)
            /\ get(self).ret = r.number
            /\ r.self.random = gen.pre.random
            /\ last.op = "flip" => last.ret = 0

C7_Witness ==
    /\ last.op = "flip"
    /\ gen.pre.random # 0
    /\ self.random # gen.pre.random
    /\ gen.output0 = 100

(* C8 -- get() is a pure read: it returns the stored value, changes
   neither salt nor random, never panics, and repeated get calls return the
   same value. *)
C8_GetIsPureRead ==
    [][last'.op = "get" =>
            /\ self' = self
            /\ last'.ret = self.random
            /\ ~last'.panic
            /\ <<keccak', hashed', calls', gen'>> = <<keccak, hashed, calls, gen>>
            /\ last.op = "get" => last'.ret = last.ret]_vars

C8_Witness ==
    /\ last.op = "get"
    /\ last.ret # 0
    /\ gen.op = "get_pseudo_random"
    /\ self.salt = U64(2)

(* C9 -- max_value = 0: get_pseudo_random(0) returns 0 whatever the digest
   is, and salt still goes up by one. *)
C9_ZeroBoundReturnsZero ==
    (IsGenerate /\ gen.max_value = 0) =>
        /\ ~gen.panic
        /\ gen.number = 0
        /\ self.salt = WrappingInc(gen.pre.salt)
        /\ gen.pre.salt = U64(calls - 1)

C9_Witness ==
    /\ IsGenerate
    /\ gen.max_value = 0
    /\ gen.output0 = ByteBase - 1
    /\ last.op = "get_pseudo_random"
    /\ last.ret = 0

(* values of `random` a second instance may hold *)
TwinRandoms == {0, 1, 55, ByteBase - 1}

(* C10 -- Determinism: a second instance with the same salt, given the same
   timestamp and max_value, returns what the last call returned, whatever
   its `random` is. *)
C10_Deterministic ==
    gen.op # "none" =>
        \A rnd \in TwinRandoms :
            LET twin == [salt |-> gen.pre.salt, random |-> rnd]
                t == get_pseudo_random(twin, gen.seed, gen.max_value,
                                       keccak[input(gen.seed, twin.salt)],
                                       overflow_checks)
            IN  /\ t.panic = gen.panic
                /\ t.number = gen.number
                /\ t.self.salt = self.salt

C10_Witness ==
    /\ IsGenerate
    /\ ~gen.panic
    /\ gen.pre.random \notin {0, 1}
    /\ gen.number # 0
    /\ gen.pre.salt # U64(0)

(* C11, as claimed -- `random` lies in 0..b, b being the max_value of the
   most recent call that generated a value (get_pseudo_random(b), or flip
   with b = 99); before any such call it is 0. *)
C11_LastValueWithinLastBound ==
    /\ gen.op = "none" => get(self).ret = 0
    /\ (gen.op # "none" /\ ~gen.panic) => get(self).ret \in 0..gen.max_value

(* C11, amended -- `random` is produced by flip alone: it is 0 after
   construction, a flip that returns leaves the generated number, which
   lies in 0..99, a get_pseudo_random(b) call leaves it as it was (so it may
   exceed b), and so do get and a call that panics. *)
C11_LastValueWithinFlipBound ==
    /\ self.random = 0
    /\ [][/\ last'.op \in {"new", "default"} => self'.random = 0
          /\ (last'.op = "flip" /\ ~last'.panic) =>
                /\ self'.random = gen'.number
                /\ self'.random \in 0..FlipMax
          /\ (last'.op = "flip" /\ last'.panic) => self'.random = self.random
          /\ last'.op = "get_pseudo_random" => self'.random = self.random
          /\ last'.op = "get" => self'.random = self.random]_vars

C11_Witness ==
    /\ IsGenerate
    /\ ~gen.panic
    /\ last.op = "get_pseudo_random"
    /\ self.random > gen.max_value
    /\ gen.number # self.random

(* C12 -- Ordering inside get_pseudo_random: the message is built from the
   salt held before the call (the k-th call on a fresh instance hashes
   salt = k-1), salt is incremented next, and the number is derived last:
   whenever the derivation ran, and also when it panicked, salt is already
   one above the hashed value, whatever max_value is. *)
C12_HashThenIncrementThenDerive ==
    /\ Len(hashed) = calls
    /\ \A k \in 1..Len(hashed) : SaltPart(hashed[k]) = to_be_bytes(U64(k - 1))
    /\ gen.op # "none" =>
          /\ hashed[Len(hashed)] = input(gen.seed, gen.pre.salt)
          /\ self.salt = WrappingInc(gen.pre.salt)
          /\ SaltPart(hashed[Len(hashed)]) # to_be_bytes(self.salt)
          /\ ~gen.panic =>
                gen.number = gen.output0 % (gen.max_value + 1)

C12_Witness ==
    /\ IsGenerate
    /\ gen.panic
    /\ calls = 3
    /\ self.salt = U64(3)
    /\ SaltPart(hashed[3]) = to_be_bytes(U64(2))

(* a < b for u64 values *)
LessU64(a, b) ==
    \E i \in 1..4 :
        /\ a[i] < b[i]
        /\ \A j \in (i + 1)..4 : a[j] = b[j]

(* C13 -- The salt increment never wraps: a get_pseudo_random / flip call
   made at the maximum salt leaves salt neither at 0 nor below its previous
   value, and no salt value is hashed twice on one instance. *)
C13_SaltNeverWrapsNorRepeats ==
    /\ gen.op # "none" => ~LessU64(self.salt, gen.pre.salt)
    /\ \A i, j \in 1..Len(hashed) :
          i # j => SaltPart(hashed[i]) # SaltPart(hashed[j])

(* What the code does at the maximum: without overflow checks salt wraps
   to 0 and the call goes on; with them the call panics on `self.salt += 1`
   after hashing, and salt stays at the maximum. *)
AtMaxWrapsOrPanics ==
    (gen.op # "none" /\ gen.pre.salt = U64Max) =>
        IF overflow_checks
        THEN gen.panic /\ self.salt = U64Max
        ELSE self.salt = U64(0) /\ (gen.panic <=> gen.max_value = ByteBase - 1)

(* With overflow checks salt never goes down, but the maximum is hashed by
   every further call. *)
CheckedBuildRepeatsMaxSalt ==
    overflow_checks =>
        /\ gen.op # "none" => ~LessU64(self.salt, gen.pre.salt)
        /\ \A i, j \in 1..Len(hashed) :
              (i # j /\ SaltPart(hashed[i]) = SaltPart(hashed[j]))
                  => SaltPart(hashed[i]) = to_be_bytes(U64Max)

(* C14 -- In every reachable state get() <= 99: `random` is written only by
   the constructors (0) and by flip (a number bounded by 99); a direct
   get_pseudo_random(max_value) call, whatever it returns, leaves it as it
   was. *)
C14_StoredValueAtMost99 ==
    /\ get(self).ret \in 0..FlipMax
    /\ gen.op = "none" => get(self).ret = 0
    /\ IsGenerate => self.random = gen.pre.random
    /\ gen.pre.random \in 0..FlipMax

C14_Witness ==
    /\ IsGenerate
    /\ ~gen.panic
    /\ gen.number > FlipMax
    /\ gen.pre.random # 0
    /\ last.op = "get"
    /\ last.ret = gen.pre.random

====
